---- MODULE Spec2Model ----
(***************************************************************************)
(* A model of the overcast-downloader archive pipeline                     *)
(* (download_overcast_podcasts.py) and of the atomic fetch primitive       *)
(* (download.py).                                                          *)
(*                                                                         *)
(* Strings that the code builds (titles, file names, paths) are sequences  *)
(* of tokens: a title <<"T", ":">> is the text "T:", a path                *)
(* <<"P", "T", "-", ".mp3">> is the file "P/T-.mp3".  File contents are    *)
(* records of one shape so that a byte comparison is record equality.      *)
(*                                                                         *)
(* Spec is the pipeline run over an export; FetchSpec is download_file;    *)
(* FeedSpec, MemoSpec and LedgerSpec drive _save_rss_feed, its lru_cache   *)
(* and the two ledger functions on their own.                              *)
(***************************************************************************)
EXTENDS Naturals, Sequences, FiniteSets, TLC

VARIABLES
    export,        \* the episode stream of the OPML export (get_episodes)
    files,         \* the archive file system: path -> content
    dirs,          \* the directories that exist
    ledger,        \* overcast.db: [db, table, ids]
    memo,          \* the lru_cache of _save_rss_feed in this process
    day,           \* index of today's date
    status,        \* "running", "completed", "raised" or "crashed"
    pos,           \* index in export of the episode of the for loop
    pc,            \* position inside download_episode
    loc,           \* download_episode's locals
    requests,      \* urlretrieve calls issued by this run
    trail,         \* steps the current (or last) download_episode call has done
    got,           \* overcast_ids whose audio request succeeded in this run
    producedBy,    \* audio path -> the download that put the file there
    chosen,        \* overcast_id -> download_path when the episode was marked
    snap,          \* the archive as a completed run left it, and whether a run followed
    dl,            \* the state of download.py's download_file
    unit           \* the state of a helper function that is driven on its own

vars == <<export, files, dirs, ledger, memo, day, status, pos, pc, loc,
          requests, trail, got, producedBy, chosen, snap, dl, unit>>

pipeVars == <<export, files, dirs, ledger, memo, day, status, pos, pc, loc,
              requests, trail, got, producedBy, chosen, snap, unit>>

----------------------------------------------------------------------------
(* Bounds *)

MaxExport == 2      \* episodes in the export
MaxDay == 2         \* calendar days the runs span

----------------------------------------------------------------------------
(* Inputs *)

IdName == <<"A", "B", "C", "D">>
DayName == <<"2020-01-01", "2020-01-02", "2020-01-03", "2020-01-04", "2020-01-05",
            "2020-01-06">>

Titles == {<<"T", ":">>, <<"U">>}
Exts == {".mp3", ".m4a"}
UrlNames == {"a", "b"}
FeedBodies == {"x", "y"}

\* What a feed request of the archive run meets: the feed document, or an error.
RunFeedOutcomes == {"x", "fail"}

Podcast == [title |-> <<"P">>, xml_url |-> "feed"]
DownloadDir == <<"audiofiles">>

None == <<>>

Episodes(i) ==
    {[overcast_id |-> IdName[i], title |-> t,
      enclosure_url |-> <<n, e>>, podcast |-> Podcast] :
        t \in Titles, n \in UrlNames, e \in Exts}

\* The exports of MaxExport episodes with distinct ids.  The two audio bodies
\* are interchangeable, so the first episode's is fixed.
Exports ==
    {s \in [1..MaxExport -> UNION {Episodes(i) : i \in 1..MaxExport}] :
        /\ \A i \in 1..MaxExport : s[i].overcast_id = IdName[i]
        /\ s[1].enclosure_url[1] = "a"}

----------------------------------------------------------------------------
(* File system *)

Exists(fs, p) == p \in DOMAIN fs

Put(fs, p, c) == [q \in DOMAIN fs \cup {p} |-> IF q = p THEN c ELSE fs[q]]

Unlink(fs, p) == [q \in DOMAIN fs \ {p} |-> fs[q]]

NoFiles == [q \in {} |-> None]

Audio(b) == [kind |-> "audio", bytes |-> b, overcast_id |-> "", filename |-> None]
Xml(b) == [kind |-> "xml", bytes |-> b, overcast_id |-> "", filename |-> None]
Json(id, fn) == [kind |-> "json", bytes |-> "", overcast_id |-> id, filename |-> fn]
Truncated == [kind |-> "json", bytes |-> "partial", overcast_id |-> "", filename |-> None]

\* The body the source serves for a URL: named by the URL's stem.
Served(url) == Audio(url[1])

CmpAlwaysEqual(fs, p, q) == TRUE

FileCmp(fs, p, q) == fs[p] = fs[q]

Join(dir, name) == dir \o name

----------------------------------------------------------------------------
(* Filename Resolver *)

Escape(s) == [i \in 1..Len(s) |-> IF s[i] \in {":", "/"} THEN "-" ELSE s[i]]

Splitext(path) == IF Len(path) > 1 /\ path[Len(path)] \in Exts
                  THEN path[Len(path)] ELSE ""

GetFilename(url, title) == Escape(title) \o <<Splitext(url)>>

RECURSIVE Replace(_, _, _)
Replace(s, old, new) ==
    IF s = <<>> THEN <<>>
    ELSE (IF Head(s) = old THEN new ELSE <<Head(s)>>) \o Replace(Tail(s), old, new)

PodcastDir(ep) == Join(DownloadDir, Escape(ep.podcast.title))

----------------------------------------------------------------------------
(* Episode Ledger *)

NoLedger == [db |-> FALSE, table |-> FALSE, ids |-> {}]

\* sqlite3.connect creates overcast.db when the download directory exists.
Connect(led, ds) == [led EXCEPT !.db = @ \/ (DownloadDir \in ds)]

HasNever(led, ds, id) == FALSE

HasEpisodeBeenDownloadedAlready(led, ds, id) ==
    /\ DownloadDir \in ds
    /\ led.table
    /\ id \in led.ids

MarkForgets(led, id) == [led EXCEPT !.db = TRUE, !.table = TRUE]

\* The INSERT of a present key raises (PRIMARY KEY): MarkRaises says when.
MarkRaises(led, id) == led.table /\ id \in led.ids

MarkEpisodeAsDownloaded(led, id) ==
    [led EXCEPT !.db = TRUE, !.table = TRUE, !.ids = @ \cup {id}]

----------------------------------------------------------------------------
(* Feed Snapshot Archiver *)

FeedName(d) == <<"feed.", DayName[d], ".xml">>

\* sorted(glob.glob("feed.*.xml")): dates sort in calendar order.
RECURSIVE SortedFrom(_, _, _)
SortedFrom(fs, dir, d) ==
    IF d > Len(DayName) THEN <<>>
    ELSE (IF Exists(fs, Join(dir, FeedName(d))) THEN <<Join(dir, FeedName(d))>> ELSE <<>>)
         \o SortedFrom(fs, dir, d + 1)

MatchingFeeds(fs, dir) == SortedFrom(fs, dir, 1)

PruneNever(fs, matching) == fs

RECURSIVE Prune(_, _)
Prune(fs, matching) ==
    IF Len(matching) >= 2
       /\ FileCmp(fs, matching[Len(matching) - 1], matching[Len(matching)])
    THEN Prune(Unlink(fs, matching[Len(matching)]), SubSeq(matching, 1, Len(matching) - 1))
    ELSE fs

\* outcome: "fail" or the feed document the server returns
FeedFetch(fs, dir, d, outcome) ==
    IF ~Exists(fs, Join(dir, FeedName(d))) /\ outcome # "fail"
    THEN Put(fs, Join(dir, FeedName(d)), Xml(outcome))
    ELSE fs

SaveRssFeedFiles(fs, dir, d, outcome) ==
    Prune(FeedFetch(fs, dir, d, outcome), MatchingFeeds(FeedFetch(fs, dir, d, outcome), dir))

MemoKey(ep) == <<ep.podcast.title, ep.podcast.xml_url, DownloadDir>>

----------------------------------------------------------------------------
(* download_url *)

AudioOutcomes == {"ok", "fail", "oserror"}

\* urlretrieve to a temporary file, then os.rename onto path; an error of
\* urlretrieve is printed and swallowed.
DownloadUrl(fs, url, path, outcome) ==
    IF outcome = "ok" THEN Put(fs, path, Served(url)) ELSE fs

----------------------------------------------------------------------------
(* download_episode *)

NoLoc == [filename |-> None, download_path |-> None, json_path |-> None,
          old_download_path |-> None]

NoSnap == [set |-> FALSE, reran |-> FALSE, files |-> NoFiles, dirs |-> {}, ledger |-> NoLedger]

Cur == export[pos]

InCall == status = "running" /\ pos <= Len(export)

Range(s) == {s[i] : i \in 1..Len(s)}

\* lines 205-217
Plan(ep) ==
    [filename |-> GetFilename(ep.enclosure_url, ep.title),
     download_path |-> Join(PodcastDir(ep), GetFilename(ep.enclosure_url, ep.title)),
     json_path |-> Join(PodcastDir(ep), Escape(ep.title) \o <<".json">>),
     old_download_path |-> None]

\* lines 235-238
Disambiguate(l, ep) ==
    LET fn == Replace(l.filename, ".mp3", <<"_", ep.overcast_id, ".mp3">>)
    IN  [filename |-> fn,
         download_path |-> Join(PodcastDir(ep), fn),
         json_path |-> Join(PodcastDir(ep), fn) \o <<".json">>,
         old_download_path |-> l.download_path]

\* json.load(open(json_path)) succeeds
Loadable(fs, p) == Exists(fs, p) /\ fs[p].kind = "json" /\ fs[p].bytes = ""

MarkBeforeFeed(step, l) ==
    CASE step = "download" -> IF l.old_download_path # None THEN "compare" ELSE "open_json"
      [] step = "compare" -> "open_json"
      [] step = "same" -> "open_json"
      [] step = "open_json" -> "write_json"
      [] step = "write_json" -> "mark"
      [] step = "mark" -> "feed"
      [] step = "feed" -> "return"

SameRedownloads(step, l) ==
    CASE step = "download" -> IF l.old_download_path # None THEN "compare" ELSE "open_json"
      [] step = "compare" -> "open_json"
      [] step = "same" -> "download"
      [] step = "open_json" -> "write_json"
      [] step = "write_json" -> "feed"
      [] step = "feed" -> "mark"
      [] step = "mark" -> "return"

\* The order of download_episode's statements: the step that follows `step`.
StepAfter(step, l) ==
    CASE step = "download" -> IF l.old_download_path # None THEN "compare" ELSE "open_json"
      [] step = "compare" -> "open_json"
      [] step = "same" -> "open_json"
      [] step = "open_json" -> "write_json"
      [] step = "write_json" -> "feed"
      [] step = "feed" -> "mark"
      [] step = "mark" -> "return"

Advance(step, l) ==
    IF StepAfter(step, l) = "return"
    THEN /\ pos' = pos + 1
         /\ pc' = "idle"
         /\ loc' = NoLoc
         /\ status' = IF pos + 1 > Len(export) THEN "completed" ELSE "running"
    ELSE /\ pos' = pos
         /\ pc' = StepAfter(step, l)
         /\ loc' = l
         /\ status' = status

Raise ==
    /\ pos' = pos
    /\ pc' = "idle"
    /\ loc' = NoLoc
    /\ status' = "raised"

\* The archive as the first run that completed left it; forgotten when a run is
\* cut short.
SnapNext ==
    snap' = IF status' \in {"raised", "crashed"} THEN NoSnap
            ELSE IF status' = "completed" /\ ~snap.set
                 THEN [set |-> TRUE, reran |-> FALSE, files |-> files', dirs |-> dirs',
                       ledger |-> ledger']
                 ELSE snap

\* lines 199-200: the episode is in the ledger
BeginSkip ==
    /\ InCall /\ pc = "idle"
    /\ HasEpisodeBeenDownloadedAlready(ledger, dirs, Cur.overcast_id)
    /\ ledger' = Connect(ledger, dirs)
    /\ pos' = pos + 1
    /\ status' = IF pos + 1 > Len(export) THEN "completed" ELSE "running"
    /\ trail' = <<"skip">>
    /\ UNCHANGED <<export, files, dirs, memo, day, pc, loc, requests, got,
                   producedBy, chosen, dl, unit>>
    /\ SnapNext

\* lines 205-224, 262-266: no file at the candidate path
BeginFresh ==
    /\ InCall /\ pc = "idle"
    /\ ~HasEpisodeBeenDownloadedAlready(ledger, dirs, Cur.overcast_id)
    /\ ~Exists(files, Plan(Cur).download_path)
    /\ ledger' = Connect(ledger, dirs)
    /\ dirs' = dirs \cup {DownloadDir, PodcastDir(Cur)}
    /\ loc' = Plan(Cur)
    /\ pc' = "download"
    /\ trail' = <<"begin">>
    /\ UNCHANGED <<export, files, memo, day, status, pos, requests, got,
                   producedBy, chosen, dl, unit>>
    /\ SnapNext

\* lines 224-238: a file is at the candidate path
BeginExisting ==
    /\ InCall /\ pc = "idle"
    /\ ~HasEpisodeBeenDownloadedAlready(ledger, dirs, Cur.overcast_id)
    /\ Exists(files, Plan(Cur).download_path)
    /\ ledger' = Connect(ledger, dirs)
    /\ dirs' = dirs \cup {DownloadDir, PodcastDir(Cur)}
    /\ IF ~Loadable(files, Plan(Cur).json_path)
       THEN /\ Raise
            /\ trail' = <<"begin", "raise">>
       ELSE IF files[Plan(Cur).json_path].overcast_id # Cur.overcast_id
       THEN /\ loc' = Disambiguate(Plan(Cur), Cur)
            /\ pc' = "download"
            /\ trail' = <<"begin", "collision">>
            /\ UNCHANGED <<pos, status>>
       ELSE /\ Advance("same", Plan(Cur))
            /\ trail' = <<"begin", "same">>
    /\ UNCHANGED <<export, files, memo, day, requests, got, producedBy, chosen, dl, unit>>
    /\ SnapNext

\* lines 244, 267: download_url for the audio file
Download ==
    /\ InCall /\ pc = "download"
    /\ \E outcome \in AudioOutcomes :
        /\ requests' = requests + 1
        /\ IF outcome = "oserror"
           THEN /\ Raise
                /\ trail' = trail \o <<"download", "raise">>
                /\ UNCHANGED <<files, got, producedBy>>
           ELSE /\ files' = DownloadUrl(files, Cur.enclosure_url, loc.download_path, outcome)
                /\ got' = IF outcome = "ok" THEN got \cup {Cur.overcast_id} ELSE got
                /\ producedBy' =
                     IF outcome = "ok"
                     THEN Put(producedBy, loc.download_path,
                              [overcast_id |-> Cur.overcast_id, json_path |-> loc.json_path])
                     ELSE producedBy
                /\ Advance("download", loc)
                /\ trail' = trail \o <<"download">>
    /\ UNCHANGED <<export, dirs, ledger, memo, day, chosen, dl, unit>>
    /\ SnapNext

\* lines 246-254: the byte comparison with the colliding file
Compare ==
    /\ InCall /\ pc = "compare"
    /\ IF /\ Exists(files, loc.download_path)
          /\ Exists(files, loc.old_download_path)
          /\ FileCmp(files, loc.download_path, loc.old_download_path)
       THEN /\ files' = Unlink(files, loc.download_path)
            /\ producedBy' = Unlink(producedBy, loc.download_path)
            /\ Advance("compare", [loc EXCEPT !.download_path = loc.old_download_path])
            /\ trail' = trail \o <<"duplicate">>
       ELSE /\ Advance("compare", loc)
            /\ trail' = trail \o <<"compare">>
            /\ UNCHANGED <<files, producedBy>>
    /\ UNCHANGED <<export, dirs, ledger, memo, day, requests, got, chosen, dl, unit>>
    /\ SnapNext

\* line 274: open(json_path, "w") creates or truncates the file
OpenJson ==
    /\ InCall /\ pc = "open_json"
    /\ \E ok \in BOOLEAN :
        IF ok
        THEN /\ files' = Put(files, loc.json_path, Truncated)
             /\ Advance("open_json", loc)
             /\ trail' = trail \o <<"open_json">>
        ELSE /\ Raise
             /\ trail' = trail \o <<"raise">>
             /\ UNCHANGED files
    /\ UNCHANGED <<export, dirs, ledger, memo, day, requests, got, producedBy, chosen, dl, unit>>
    /\ SnapNext

\* lines 270-275: the metadata is written and the file closed
WriteJson ==
    /\ InCall /\ pc = "write_json"
    /\ \E ok \in BOOLEAN :
        IF ok
        THEN /\ files' = Put(files, loc.json_path, Json(Cur.overcast_id, loc.filename))
             /\ Advance("write_json", loc)
             /\ trail' = trail \o <<"write_json">>
        ELSE /\ Raise
             /\ trail' = trail \o <<"raise">>
             /\ UNCHANGED files
    /\ UNCHANGED <<export, dirs, ledger, memo, day, requests, got, producedBy, chosen, dl, unit>>
    /\ SnapNext

\* line 277 and lines 290-313: save_rss_feed
SaveRssFeed ==
    /\ InCall /\ pc = "feed"
    /\ IF MemoKey(Cur) \in memo
       THEN UNCHANGED <<files, memo, requests>>
       ELSE \E outcome \in RunFeedOutcomes :
              /\ files' = SaveRssFeedFiles(files, PodcastDir(Cur), day, outcome)
              /\ memo' = memo \cup {MemoKey(Cur)}
              /\ requests' = IF Exists(files, Join(PodcastDir(Cur), FeedName(day)))
                             THEN requests ELSE requests + 1
    /\ Advance("feed", loc)
    /\ trail' = trail \o <<"feed">>
    /\ UNCHANGED <<export, dirs, ledger, day, got, producedBy, chosen, dl, unit>>
    /\ SnapNext

\* line 278: mark_episode_as_downloaded
Mark ==
    /\ InCall /\ pc = "mark"
    /\ IF MarkRaises(ledger, Cur.overcast_id)
       THEN /\ Raise
            /\ trail' = trail \o <<"raise">>
            /\ ledger' = [ledger EXCEPT !.db = TRUE]
       ELSE /\ ledger' = MarkEpisodeAsDownloaded(ledger, Cur.overcast_id)
            /\ Advance("mark", loc)
            /\ trail' = trail \o <<"mark">>
    /\ chosen' = IF MarkRaises(ledger, Cur.overcast_id) THEN chosen
                 ELSE Put(chosen, Cur.overcast_id, loc.download_path)
    /\ UNCHANGED <<export, files, dirs, memo, day, requests, got, producedBy, dl, unit>>
    /\ SnapNext

\* The process is killed inside download_episode.
Crash ==
    /\ InCall /\ pc # "idle"
    /\ pc' = "idle"
    /\ loc' = NoLoc
    /\ status' = "crashed"
    /\ trail' = trail \o <<"crash">>
    /\ UNCHANGED <<export, files, dirs, ledger, memo, day, pos, requests, got,
                   producedBy, chosen, dl, unit>>
    /\ SnapNext

\* The script is started again over the same export, the same or the next day.
StartRun ==
    /\ status # "running"
    /\ status' = "running"
    /\ pos' = 1
    /\ memo' = {}
    /\ requests' = 0
    /\ trail' = <<>>
    /\ \E d \in {day, day + 1} : d <= MaxDay /\ day' = d
    /\ got' = {}
    /\ snap' = [snap EXCEPT !.reran = snap.set]
    /\ UNCHANGED <<export, files, dirs, ledger, pc, loc, producedBy, chosen, dl, unit>>

Absent == <<"absent">>

\* download_file is not running.
NoDl == [pc |-> "off", path |-> [dir |-> "", name |-> None], body |-> <<>>,
         dest |-> Absent, existed |-> FALSE, attempt |-> 0, tmp_path |-> None,
         tmp |-> <<>>, orphans |-> {}, sent |-> 0, last_exc |-> ""]

\* No helper function is driven on its own.
NoUnit == [of |-> "none"]

Init ==
    /\ export \in Exports
    /\ files = NoFiles
    /\ dirs = {}
    /\ ledger = NoLedger
    /\ memo = {}
    /\ day = 1
    /\ status = "running"
    /\ pos = 1
    /\ pc = "idle"
    /\ loc = NoLoc
    /\ requests = 0
    /\ trail = <<>>
    /\ got = {}
    /\ producedBy = NoFiles
    /\ chosen = NoFiles
    /\ snap = NoSnap
    /\ dl = NoDl
    /\ unit = NoUnit

Next ==
    \/ BeginSkip
    \/ BeginFresh
    \/ BeginExisting
    \/ Download
    \/ Compare
    \/ OpenJson
    \/ WriteJson
    \/ SaveRssFeed
    \/ Mark
    \/ Crash
    \/ StartRun

Spec == Init /\ [][Next]_vars

----------------------------------------------------------------------------
(* download.py: download_file under its tenacity retry wrapper.  The state is   *)
(* the record dl:                                                              *)
(*   pc        "off", "call" (an attempt is about to run), "request" (the      *)
(*             request is sent), "stream" (the body is being written),         *)
(*             "done" (the path was returned) or "error" (an exception left    *)
(*             the wrapper)                                                    *)
(*   path      the destination path, [dir, name]                               *)
(*   body      the chunks of the response body of the URL                      *)
(*   dest      the content at path, Absent or a sequence of chunks             *)
(*   existed   whether path existed when download_file was called              *)
(*   attempt   the number of the attempt                                       *)
(*   tmp_path  the temporary file of the attempt, or None                      *)
(*   tmp       the chunks written to it                                        *)
(*   orphans   the contents of the temporary files earlier attempts left       *)
(*   sent      the requests sent                                               *)
(*   last_exc  the exception of the last failed attempt, "" if none            *)

MaxChunks == 2

MaxAttempts == 10

ChunkName == <<"c1", "c2", "c3", "c4">>
UuidName == <<"u1", "u2", "u3", "u4", "u5", "u6", "u7", "u8", "u9", "u10", "u11">>

OldContent == <<"old">>

DlPaths == {[dir |-> "archive", name |-> <<"file">>], [dir |-> "", name |-> <<"file">>]}

\* httpx.HTTPError has the subclasses RequestError (whose subclasses include the
\* transport errors ConnectError and ReadError) and HTTPStatusError, which
\* raise_for_status raises.
HttpxHTTPError == {"ConnectError", "ReadError", "HTTPStatusError"}

\* lines 11-14: retry_if_exception_type(httpx.HTTPError) | ...(urllib3 HTTPError)
RetryPredicate(exc) == exc \in HttpxHTTPError

PathAlwaysNew(dest) == FALSE

\* line 32: os.path.exists(path)
PathExists(dest) == dest # Absent

\* line 51: f"{path}.{uuid.uuid4()}.tmp"
TmpPath(path, uuid) == [dir |-> path.dir, name |-> path.name \o <<".", uuid, ".tmp">>]

Dirname(path) == path.dir

RenameOnError(dest, tmp) == tmp

\* lines 60-62: the exception is printed and raised again; line 64 is not reached
DestAfterError(dest, tmp) == dest

\* An attempt ends with exception exc: tenacity runs another attempt or gives up.
DlFail(exc) ==
    dl' = [dl EXCEPT
             !.dest = IF dl.tmp_path # None THEN DestAfterError(dl.dest, dl.tmp) ELSE @,
             !.orphans = IF dl.tmp_path # None THEN @ \cup {dl.tmp} ELSE @,
             !.tmp_path = None,
             !.tmp = <<>>,
             !.last_exc = exc,
             !.attempt = IF RetryPredicate(exc) /\ dl.attempt < MaxAttempts THEN @ + 1 ELSE @,
             !.pc = IF RetryPredicate(exc) /\ dl.attempt < MaxAttempts THEN "call" ELSE "error"]

\* lines 32-42: the path exists and is returned, or the request is sent
DlCall ==
    /\ dl.pc = "call"
    /\ dl' = IF PathExists(dl.dest)
             THEN [dl EXCEPT !.pc = "done"]
             ELSE [dl EXCEPT !.pc = "request", !.sent = @ + 1]
    /\ UNCHANGED pipeVars

\* lines 42-53: the response arrives, or the transport fails
DlResponse ==
    /\ dl.pc = "request"
    /\ \/ DlFail("ConnectError")
       \/ DlFail("HTTPStatusError")
       \/ dl' = [dl EXCEPT !.pc = "stream",
                           !.tmp_path = TmpPath(dl.path, UuidName[dl.attempt]),
                           !.tmp = <<>>]
    /\ UNCHANGED pipeVars

\* lines 54-55: a chunk is written, or the stream or the write fails
DlChunk ==
    /\ dl.pc = "stream"
    /\ Len(dl.tmp) < Len(dl.body)
    /\ \/ dl' = [dl EXCEPT !.tmp = Append(@, dl.body[Len(dl.tmp) + 1])]
       \/ DlFail("ReadError")
       \/ DlFail("OSError")
    /\ UNCHANGED pipeVars

\* lines 64-65: the body is complete; os.rename(tmp_path, path)
DlRename ==
    /\ dl.pc = "stream"
    /\ Len(dl.tmp) = Len(dl.body)
    /\ dl' = [dl EXCEPT !.dest = dl.tmp, !.tmp_path = None, !.tmp = <<>>, !.pc = "done"]
    /\ UNCHANGED pipeVars

FetchInit ==
    /\ export = <<>>
    /\ files = NoFiles
    /\ dirs = {}
    /\ ledger = NoLedger
    /\ memo = {}
    /\ day = 1
    /\ status = "completed"
    /\ pos = 1
    /\ pc = "idle"
    /\ loc = NoLoc
    /\ requests = 0
    /\ trail = <<>>
    /\ got = {}
    /\ producedBy = NoFiles
    /\ chosen = NoFiles
    /\ snap = NoSnap
    /\ unit = NoUnit
    /\ \E p \in DlPaths, n \in 1..MaxChunks, e \in BOOLEAN :
          dl = [NoDl EXCEPT !.pc = "call", !.path = p, !.body = SubSeq(ChunkName, 1, n),
                            !.dest = IF e THEN OldContent ELSE Absent,
                            !.existed = e, !.attempt = 1]

FetchNext ==
    \/ DlCall
    \/ DlResponse
    \/ DlChunk
    \/ DlRename

FetchSpec == FetchInit /\ [][FetchNext]_vars

----------------------------------------------------------------------------
(* Properties of the archive run *)

AudioPaths == {p \in DOMAIN files : files[p].kind = "audio"}

\* A complete metadata file that records overcast_id id.
MetadataOf(id) == {p \in DOMAIN files : Loadable(files, p) /\ files[p].overcast_id = id}

LastStep == IF trail = <<>> THEN "" ELSE trail[Len(trail)]

\* Pairs of episodes of one podcast that resolve to the same file name and that
\* no earlier episode shares the name with.
ClashingPairs ==
    {ij \in (1..Len(export)) \X (1..Len(export)) :
        /\ ij[1] < ij[2]
        /\ Plan(export[ij[1]]).download_path = Plan(export[ij[2]]).download_path
        /\ \A k \in 1..(ij[2] - 1) :
             k # ij[1] => Plan(export[k]).download_path # Plan(export[ij[1]]).download_path}

\* A run over the export has ended normally and the audio of both episodes of the
\* pair was fetched in it.
BothFetched(ij) ==
    /\ status = "completed"
    /\ {export[ij[1]].overcast_id, export[ij[2]].overcast_id} \subseteq got

\* C1: every overcast_id in the ledger has its Archive Entry fully written: the
\* audio file exists at the path chosen for the episode and a metadata file
\* recording the overcast_id exists; an episode whose audio download failed is
\* not in the ledger.
C1_LedgerImpliesArchived ==
    \A id \in ledger.ids :
        /\ Exists(files, chosen[id])
        /\ files[chosen[id]].kind = "audio"
        /\ MetadataOf(id) # {}

\* C2: within a download_episode call the ledger insert is the last side effect:
\* the ledger's ids change only at the mark step, by adding the id of the episode
\* of the call, which was absent, after the audio step (a download, or the reuse
\* of the episode's own file), the metadata write and the feed step of this call,
\* and the call then returns; a step that raises leaves the ids as they were.
C2_MarkIsCommitPoint ==
    [][/\ ledger'.ids # ledger.ids =>
            /\ InCall /\ pc = "mark"
            /\ Cur.overcast_id \notin ledger.ids
            /\ ledger'.ids = ledger.ids \cup {Cur.overcast_id}
            /\ {"write_json", "feed"} \subseteq Range(trail)
            /\ {"download", "same"} \cap Range(trail) # {}
            /\ pc' = "idle" /\ pos' = pos + 1
       /\ (status = "running" /\ status' = "raised") =>
            /\ ledger'.ids = ledger.ids
            /\ Cur.overcast_id \notin ledger'.ids]_vars

C2_Marked ==
    /\ LastStep = "mark"
    /\ "download" \in Range(trail)
    /\ pos > 1 /\ export[pos - 1].overcast_id \in ledger.ids

\* C3: when the episode's overcast_id is in the ledger, download_episode returns
\* at once: no request is issued, no file or directory is created, rewritten or
\* deleted, and the ledger's ids are unchanged.
C3_LedgeredEpisodeIsNoOp ==
    [][(InCall /\ pc = "idle" /\ Cur.overcast_id \in ledger.ids) =>
            /\ pc' = "idle" /\ pos' = pos + 1
            /\ files' = files
            /\ dirs' = dirs
            /\ requests' = requests
            /\ ledger'.ids = ledger.ids]_vars

C3_Skipped ==
    /\ LastStep = "skip"
    /\ pos > 1 /\ export[pos - 1].overcast_id \in ledger.ids
    /\ AudioPaths # {}

\* C4: a run over the unchanged export that follows a completed run leaves the
\* files, directories and ledger exactly as the completed run left them and
\* issues no request.
C4_RerunChangesNothing ==
    (snap.set /\ snap.reran) =>
        /\ files = snap.files
        /\ dirs = snap.dirs
        /\ ledger = snap.ledger
        /\ requests = 0

C4_RerunCompleted ==
    /\ snap.set /\ snap.reran
    /\ status = "completed"
    /\ AudioPaths # {}
    /\ Cardinality(ledger.ids) = Len(export)

\* C8: two distinct episodes of one podcast that resolve to the same file name
\* and whose audio bytes differ end with two audio files, the original name
\* holding the first episode's bytes and a name disambiguated with the second
\* episode's overcast_id holding the second's, each with a metadata file that
\* records its own episode's overcast_id and file name.
C8_CollisionKeepsBoth ==
    \A ij \in ClashingPairs :
        LET first == export[ij[1]]
            second == export[ij[2]]
            orig == Plan(first).download_path
        IN  (BothFetched(ij) /\ Served(first.enclosure_url) # Served(second.enclosure_url)) =>
              /\ Exists(files, orig)
              /\ files[orig] = Served(first.enclosure_url)
              /\ \E q \in AudioPaths :
                    /\ q # orig
                    /\ second.overcast_id \in Range(q)
                    /\ files[q] = Served(second.enclosure_url)
                    /\ \E m \in MetadataOf(second.overcast_id) :
                          Join(PodcastDir(second), files[m].filename) = q
              /\ \E m \in MetadataOf(first.overcast_id) :
                    Join(PodcastDir(first), files[m].filename) = orig

\* C9: when the second of two episodes that resolve to the same file name
\* downloads audio byte-identical to the file on disk, exactly one audio file
\* remains for them: the disambiguated download is deleted and the original file
\* is kept with its content.
C9_DuplicateCollapses ==
    \A ij \in ClashingPairs :
        LET first == export[ij[1]]
            second == export[ij[2]]
            orig == Plan(first).download_path
            dis == Disambiguate(Plan(second), second).download_path
        IN  (BothFetched(ij) /\ Served(first.enclosure_url) = Served(second.enclosure_url)) =>
              /\ Exists(files, orig)
              /\ files[orig] = Served(first.enclosure_url)
              /\ Cardinality({p \in {orig, dis} : Exists(files, p)}) = 1

\* C10: between calls of a run that was not cut short, the metadata file that
\* belongs to an audio file fetched in the run records the overcast_id of the
\* episode whose download produced the audio file: no call for another episode
\* has overwritten it.
C10_MetadataMatchesProducer ==
    (pc = "idle" /\ status \in {"running", "completed"}) =>
        \A p \in AudioPaths :
            producedBy[p].overcast_id \in got =>
                /\ Loadable(files, producedBy[p].json_path)
                /\ files[producedBy[p].json_path].overcast_id = producedBy[p].overcast_id

----------------------------------------------------------------------------
(* Properties of download_file *)

IsProperPrefix(t, b) == Len(t) < Len(b) /\ t = SubSeq(b, 1, Len(t))

\* C5: for a call of download_file that found no file at path, at every point
\* of every attempt the path is absent or holds the complete response body, and
\* holds it only once an attempt has succeeded; the temporary file of an attempt
\* is in the directory of path under another name.
C5_DestinationAbsentOrComplete ==
    ~dl.existed =>
        /\ dl.dest \in {Absent, dl.body}
        /\ dl.dest # Absent => dl.pc = "done"
        /\ dl.tmp_path # None =>
              /\ Dirname(dl.tmp_path) = Dirname(dl.path)
              /\ dl.tmp_path # dl.path

C5_FailedMidStream ==
    /\ ~dl.existed
    /\ dl.pc \in {"call", "error"}
    /\ dl.last_exc \in {"ReadError", "OSError"}
    /\ \E t \in dl.orphans : t # <<>> /\ IsProperPrefix(t, dl.body)
    /\ dl.dest = Absent

\* C6: when path exists at the call, download_file returns it at once: no
\* request is sent, no temporary file is created and the file's content is
\* unchanged.
C6_ExistingPathIsNoOp ==
    dl.existed =>
        /\ dl.pc \in {"call", "done"}
        /\ dl.sent = 0
        /\ dl.tmp_path = None /\ dl.orphans = {}
        /\ dl.dest = OldContent
        /\ dl.attempt = 1

C6_ReturnedExisting == dl.existed /\ dl.pc = "done"

\* C7: an HTTP status error raised by raise_for_status (a 404) is surfaced to the
\* caller after the attempt that met it and is not retried.
C7_StatusErrorNotRetried ==
    dl.last_exc = "HTTPStatusError" => dl.pc = "error"

----------------------------------------------------------------------------
(* _save_rss_feed on its own: the feed of one podcast is saved, any number of
   times a day, over several days, starting from an empty podcast directory.
   The server answers each request with either feed document or fails. *)

MaxFeedDay == 4     \* calendar days the calls span

FeedDir == Join(DownloadDir, Escape(Podcast.title))

FeedOutcomes == FeedBodies \cup {"fail"}

\* lines 290-313: one call of _save_rss_feed; unit remembers the documents the
\* server has returned on each day and the one this call was given.
FeedCall ==
    /\ unit.of = "feed"
    /\ \E outcome \in FeedOutcomes :
        /\ files' = SaveRssFeedFiles(files, FeedDir, day, outcome)
        /\ unit' = IF ~Exists(files, Join(FeedDir, FeedName(day))) /\ outcome # "fail"
                   THEN [unit EXCEPT !.fetched[day] = @ \cup {outcome}, !.last = outcome]
                   ELSE [unit EXCEPT !.last = "none"]
    /\ UNCHANGED <<export, dirs, ledger, memo, day, status, pos, pc, loc, requests, trail,
                   got, producedBy, chosen, snap, dl>>

\* line 294: datetime.now() moves on to the next day
FeedNextDay ==
    /\ unit.of = "feed"
    /\ day < MaxFeedDay
    /\ day' = day + 1
    /\ unit' = [unit EXCEPT !.last = "none"]
    /\ UNCHANGED <<export, files, dirs, ledger, memo, status, pos, pc, loc, requests, trail,
                   got, producedBy, chosen, snap, dl>>

FeedInit ==
    /\ export = <<>>
    /\ files = NoFiles
    /\ dirs = {DownloadDir, FeedDir}
    /\ ledger = NoLedger
    /\ memo = {}
    /\ day = 1
    /\ status = "completed"
    /\ pos = 1
    /\ pc = "idle"
    /\ loc = NoLoc
    /\ requests = 0
    /\ trail = <<>>
    /\ got = {}
    /\ producedBy = NoFiles
    /\ chosen = NoFiles
    /\ snap = NoSnap
    /\ dl = NoDl
    /\ unit = [of |-> "feed", fetched |-> [d \in 1..MaxFeedDay |-> {}], last |-> "none"]

FeedNext ==
    \/ FeedCall
    \/ FeedNextDay

FeedSpec == FeedInit /\ [][FeedNext]_vars

\* ---------------------------------------------------------------------------
\* Claims about the feed snapshots (FeedSpec)
\* ---------------------------------------------------------------------------

\* The retained snapshots of the podcast, oldest first.
Snapshots == MatchingFeeds(files, FeedDir)

\* The distinct feed documents held by the snapshots of fs.
Contents(fs) == {fs[p].bytes : p \in Range(MatchingFeeds(fs, FeedDir))}

\* unit.fetched is the given sequence of daily documents and today is its last day.
FetchedIs(seq) ==
    /\ day = Len(seq)
    /\ \A d \in 1..Len(seq) : unit.fetched[d] = {seq[d]}

\* C12: starting from an empty podcast directory, after any calls of
\* _save_rss_feed on any days with any feed documents or failed fetches, no two
\* date-adjacent snapshots are byte-identical; the same document fetched on three
\* consecutive days leaves exactly one snapshot, and a document that changes only
\* on the third day leaves exactly two.
C12_NoAdjacentIdenticalSnapshots ==
    /\ \A i \in 1..(Len(Snapshots) - 1) : files[Snapshots[i]] # files[Snapshots[i + 1]]
    /\ \A b \in FeedBodies : FetchedIs(<<b, b, b>>) => Len(Snapshots) = 1
    /\ \A b \in FeedBodies : \A c \in FeedBodies \ {b} :
          FetchedIs(<<b, b, c>>) => Len(Snapshots) = 2

\* The document changed on the third day, after two days of the same document.
C12_ChangedOnThirdDay == FetchedIs(<<"x", "x", "y">>) /\ Len(Snapshots) = 2

\* C19: a call deletes no snapshot but the lexically last one, and that only
\* when it is byte-identical to the one before it: every snapshot there before
\* the call is still there unchanged, the document fetched by the call is either
\* kept under today's name or equal to the last snapshot kept, the set of
\* distinct documents retained never shrinks, and a snapshot remains whenever
\* one existed.
C19_PruneOnlyDropsDuplicateTail ==
    [][ /\ \A p \in DOMAIN files : Exists(files', p) /\ files'[p] = files[p]
        /\ Contents(files) \subseteq Contents(files')
        /\ (Len(Snapshots) > 0 => Len(MatchingFeeds(files', FeedDir)) > 0)
        /\ (unit'.last \in FeedBodies /\ ~Exists(files', Join(FeedDir, FeedName(day)))) =>
              /\ Len(MatchingFeeds(files', FeedDir)) > 0
              /\ files'[MatchingFeeds(files', FeedDir)[Len(MatchingFeeds(files', FeedDir))]]
                     = Xml(unit'.last)
      ]_vars

\* A call fetched a document and pruned it as a duplicate of the snapshot before.
C19_Pruned ==
    /\ unit.last \in FeedBodies
    /\ ~Exists(files, Join(FeedDir, FeedName(day)))
    /\ Len(Snapshots) > 0

----------------------------------------------------------------------------
(* save_rss_feed within one run over an export of many podcasts: the episodes
   arrive round-robin, one of each podcast and then one of each again, and
   functools.lru_cache() keeps the calls of _save_rss_feed it has seen. *)

NumFeeds == 129     \* podcasts in the export

LruMaxSize == 128   \* functools.lru_cache(): maxsize defaults to 128

\* The podcast of the k-th episode of the stream.
FeedOf(k) == ((k - 1) % NumFeeds) + 1

StreamEpisode(k) ==
    [podcast |-> [title |-> <<"P", ToString(FeedOf(k))>>, xml_url |-> "feed"]]

StreamLen == NumFeeds + NumFeeds

\* The cache holds the keys least recently used first.
LruHit(cache, key) == key \in Range(cache)

LruTouch(cache, key) == SelectSeq(cache, LAMBDA e : e # key) \o <<key>>

LruInsert(cache, key) ==
    IF Len(cache) >= LruMaxSize THEN Tail(cache) \o <<key>> ELSE cache \o <<key>>

\* line 277 and lines 281-313: save_rss_feed for the next episode of the stream.
\* The servers of the podcasts in unit.down refuse every request.
MemoCall ==
    /\ unit.of = "memo"
    /\ unit.k <= StreamLen
    /\ LET ep == StreamEpisode(unit.k)
           outcome == IF FeedOf(unit.k) \in unit.down THEN "fail" ELSE "x"
       IN  IF LruHit(unit.cache, MemoKey(ep))
           THEN /\ unit' = [unit EXCEPT !.k = @ + 1, !.cache = LruTouch(@, MemoKey(ep))]
                /\ UNCHANGED files
           ELSE /\ files' = SaveRssFeedFiles(files, PodcastDir(ep), day, outcome)
                /\ unit' = [unit EXCEPT
                              !.k = @ + 1,
                              !.cache = LruInsert(@, MemoKey(ep)),
                              !.reqs[FeedOf(unit.k)] =
                                  IF Exists(files, Join(PodcastDir(ep), FeedName(day)))
                                  THEN @ ELSE @ + 1]
    /\ UNCHANGED <<export, dirs, ledger, memo, day, status, pos, pc, loc, requests, trail,
                   got, producedBy, chosen, snap, dl>>

MemoInit ==
    /\ export = <<>>
    /\ files = NoFiles
    /\ dirs = {DownloadDir} \cup {PodcastDir(StreamEpisode(k)) : k \in 1..NumFeeds}
    /\ ledger = NoLedger
    /\ memo = {}
    /\ day = 1
    /\ status = "running"
    /\ pos = 1
    /\ pc = "idle"
    /\ loc = NoLoc
    /\ requests = 0
    /\ trail = <<>>
    /\ got = {}
    /\ producedBy = NoFiles
    /\ chosen = NoFiles
    /\ snap = NoSnap
    /\ dl = NoDl
    /\ \E down \in {{}, {1}, 1..NumFeeds} :
          unit = [of |-> "memo", k |-> 1, cache |-> <<>>, down |-> down,
                  reqs |-> [f \in 1..NumFeeds |-> 0]]

MemoNext == MemoCall

MemoSpec == MemoInit /\ [][MemoNext]_vars

\* C13: within a single run the feed document of a given podcast (title and
\* feed URL) is requested at most once, however many episodes reference it,
\* in whatever order the episodes of different podcasts arrive, and whether or
\* not the first fetch succeeded.
C13_FeedRequestedOnce == \A f \in 1..NumFeeds : unit.reqs[f] <= 1

----------------------------------------------------------------------------
(* The ledger functions on their own: has_episode_been_downloaded_already and
   mark_episode_as_downloaded are called in any order for any overcast_id, the
   download directory being there. *)

LedgerIds == Range(IdName)

\* lines 139-156: mark_episode_as_downloaded(id); unit remembers the call and
\* whether it raised.
LedgerMark ==
    /\ unit.of = "ledger"
    /\ \E id \in LedgerIds :
        IF MarkRaises(ledger, id)
        THEN /\ ledger' = [ledger EXCEPT !.db = TRUE]
             /\ unit' = [unit EXCEPT !.op = "mark", !.id = id, !.raised = TRUE,
                                     !.result = FALSE]
        ELSE /\ ledger' = MarkEpisodeAsDownloaded(ledger, id)
             /\ unit' = [unit EXCEPT !.op = "mark", !.id = id, !.raised = FALSE,
                                     !.result = FALSE]
    /\ UNCHANGED <<export, files, dirs, memo, day, status, pos, pc, loc, requests, trail,
                   got, producedBy, chosen, snap, dl>>

\* lines 114-136: has_episode_been_downloaded_already(id)
LedgerHas ==
    /\ unit.of = "ledger"
    /\ \E id \in LedgerIds :
        /\ ledger' = Connect(ledger, dirs)
        /\ unit' = [unit EXCEPT !.op = "has", !.id = id, !.raised = FALSE,
                                !.result = HasEpisodeBeenDownloadedAlready(ledger, dirs, id)]
    /\ UNCHANGED <<export, files, dirs, memo, day, status, pos, pc, loc, requests, trail,
                   got, producedBy, chosen, snap, dl>>

LedgerInit ==
    /\ export = <<>>
    /\ files = NoFiles
    /\ dirs = {DownloadDir}
    /\ ledger = NoLedger
    /\ memo = {}
    /\ day = 1
    /\ status = "completed"
    /\ pos = 1
    /\ pc = "idle"
    /\ loc = NoLoc
    /\ requests = 0
    /\ trail = <<>>
    /\ got = {}
    /\ producedBy = NoFiles
    /\ chosen = NoFiles
    /\ snap = NoSnap
    /\ dl = NoDl
    /\ unit = [of |-> "ledger", op |-> "none", id |-> "", raised |-> FALSE, result |-> FALSE]

LedgerNext ==
    \/ LedgerMark
    \/ LedgerHas

LedgerSpec == LedgerInit /\ [][LedgerNext]_vars

\* C16: the ledger has set semantics: mark_episode_as_downloaded for an id that
\* is already in the ledger does not raise and leaves the membership unchanged,
\* and when the table does not exist yet the call creates it and inserts the id:
\* after every call the table exists and holds the ids it held plus the id marked.
C16_MarkHasSetSemantics ==
    [][ unit'.op = "mark" =>
            /\ ~unit'.raised
            /\ ledger'.table
            /\ ledger'.ids = ledger.ids \cup {unit'.id}
      ]_vars

\* ---------------------------------------------------------------------------
\* Claims about the metadata, crash recovery and the driver loop (Spec)
\* ---------------------------------------------------------------------------

\* The episode whose call has just marked it.
JustMarked == export[pos - 1]

\* C11: when download_episode has finished for an episode whose audio download
\* succeeded, a metadata file of the episode records as "filename" the name of
\* the audio file finally chosen for it, and that file exists in the podcast
\* directory (direct, collision and duplicate-collapse cases alike).
C11_MetadataNamesFinalFile ==
    (pc = "idle" /\ LastStep = "mark" /\ JustMarked.overcast_id \in got) =>
        \E m \in MetadataOf(JustMarked.overcast_id) :
            /\ Join(PodcastDir(JustMarked), files[m].filename) = chosen[JustMarked.overcast_id]
            /\ Exists(files, Join(PodcastDir(JustMarked), files[m].filename))

\* download_episode is about to be called for an episode that is not in the
\* ledger although an earlier, interrupted call has left its audio file in place.
LeftByInterruptedRun ==
    /\ InCall /\ pc = "idle"
    /\ ~HasEpisodeBeenDownloadedAlready(ledger, dirs, Cur.overcast_id)
    /\ \E p \in DOMAIN producedBy :
          Exists(files, p) /\ producedBy[p].overcast_id = Cur.overcast_id

\* C14: if a run is interrupted after an episode's audio file has been placed at
\* its final path and before mark has committed, the next run's download_episode
\* for that episode finds the existing file, issues no audio download and goes on
\* to finish with the id in the ledger (it neither downloads again nor raises).
C14_CrashRecovery ==
    [][LeftByInterruptedRun => (pc' # "download" /\ status' # "raised")]_vars

\* C15: a failure while processing one episode does not stop the run: the
\* driver loop never ends on an exception while episodes after the failing one
\* have not been handed to download_episode.
C15_FailureDoesNotStopRun == status = "raised" => pos = Len(export)

\* C17: at no point is a partially written metadata file visible at its
\* canonical path: every metadata file present holds complete content.
C17_NoPartialMetadata ==
    \A p \in DOMAIN files : files[p].kind = "json" => files[p] # Truncated

\* download_episode is about to be called for an episode whose candidate audio
\* file exists with metadata recording the same overcast_id.
SameEpisodeOnDisk ==
    /\ InCall /\ pc = "idle"
    /\ ~HasEpisodeBeenDownloadedAlready(ledger, dirs, Cur.overcast_id)
    /\ Exists(files, Plan(Cur).download_path)
    /\ Loadable(files, Plan(Cur).json_path)
    /\ files[Plan(Cur).json_path].overcast_id = Cur.overcast_id

\* C18: when the candidate audio file exists and its metadata records the same
\* overcast_id as the current episode, download_episode issues no audio
\* download and leaves the existing audio file unchanged, from its first step to
\* its last.
C18_SameEpisodeNotDownloaded ==
    [][ /\ SameEpisodeOnDisk => (pc' # "download" /\ requests' = requests /\ files' = files)
        /\ (InCall /\ pc # "idle" /\ "same" \in Range(trail)) =>
              /\ pc' \notin {"download", "compare"}
              /\ Exists(files', Plan(Cur).download_path)
              /\ files'[Plan(Cur).download_path] = files[Plan(Cur).download_path]
              /\ (requests' # requests => pc = "feed")
      ]_vars

\* A call that found the episode's own audio file has marked the episode.
C18_SameKept == "same" \in Range(trail) /\ LastStep = "mark"

\* C20: on a filename collision with a different overcast_id, whatever the
\* enclosure extension, the disambiguated download path differs from the
\* original path, and no step of the call overwrites or deletes the original
\* colliding file, whether the new download succeeds, fails or is byte-identical.
C20_CollisionSparesOriginal ==
    [][ /\ (pc = "idle" /\ pc' = "download" /\ loc'.old_download_path # None) =>
              loc'.download_path # loc'.old_download_path
        /\ (InCall /\ pc \in {"download", "compare"} /\ loc.old_download_path # None) =>
              /\ Exists(files', loc.old_download_path)
              /\ files'[loc.old_download_path] = files[loc.old_download_path]
      ]_vars

=============================================================================
